---- MODULE Spec2Model ----
(***************************************************************************)
(* Item-request tracker: the validation layer (lib/validation/requests.ts), *)
(* the business-logic layer (server/requests.ts), the Mongoose schema       *)
(* (server/models/request.model.ts) and the cached store connection         *)
(* (lib/db/mongodb.ts), as a state machine of concurrently running          *)
(* requests over one record store.                                          *)
(***************************************************************************)
EXTENDS Integers, Sequences, FiniteSets, TLC

(***************************************************************************)
(* Bounds of the model.                                                     *)
(***************************************************************************)
\* ObjectIds the store can assign over one run
MaxIds == 2
\* longest batch (updates / ids) a caller sends
MaxBatch == 2
\* last instant of the wall clock
MaxClock == 1
\* ObjectIds the store can assign over one run of SpecTime
MaxTimeIds == 1
\* ObjectIds the store has assigned by the end of a run of SpecGet
MaxGetIds == 4
\* last page a caller asks for
MaxPage == 3
\* the records the store of the admin page can come to hold
MaxAdminIds == 4
\* the handlers of the admin page that can wait for the API at a time
MaxInFlight == 1
\* the largest totalRecords Pagination is given
MaxRecords == 12
\* the requests followed step by step: three of them where they meet in
\* connectDB (SpecConnect), the first alone elsewhere (the other requests
\* running beside it appear through their store operations, see OtherSave
\* and the like)
Procs == {"r1", "r2", "r3"}
Followed == {"r1"}

(***************************************************************************)
(* JavaScript values of the untyped (any) payloads.                         *)
(*   - a name / item string is abstracted to its leading whitespace, its    *)
(*     trimmed length (core) and its trailing whitespace;                   *)
(*   - an id string is its leading whitespace and the key it names: key 0   *)
(*     is the empty core, keys 1..MaxIds are ObjectId hex strings, key -1   *)
(*     is a string that is no ObjectId ("nonexistent");                     *)
(*   - a status string is its text.                                         *)
(***************************************************************************)
Undefined == [t |-> "undefined"]
Null == [t |-> "null"]
Num == [t |-> "number"]
NotArray == [t |-> "object"]
Arr(items) == [t |-> "array", items |-> items]
Str(lead, core, trail) == [t |-> "string", lead |-> lead, core |-> core, trail |-> trail]
IdStr(lead, key) == [t |-> "string", lead |-> lead, key |-> key]
StatusStr(s) == [t |-> "string", v |-> s]

\* String.prototype.length and String.prototype.trim on a name / item string
length(str) == str.lead + str.core + str.trail
trim(str) == Str(0, str.core, 0)
\* the same on an id string (every key other than 0 is at least one character)
idLength(id) == id.lead + (IF id.key = 0 THEN 0 ELSE 1)
idTrim(id) == IdStr(0, id.key)

\* JavaScript truthiness of the values above (!x is ~Truthy(x))
TruthyStr(v) == v.t = "number" \/ (v.t = "string" /\ length(v) > 0)
TruthyId(v) == v.t = "number" \/ (v.t = "string" /\ idLength(v) > 0)
TruthyStatus(v) == v.t = "number" \/ (v.t = "string" /\ v.v # "")
TruthyArr(v) == v.t \in {"object", "array"}

\* enum RequestStatus
RequestStatus == {"pending", "approved", "completed", "rejected"}
PENDING == "pending"

(***************************************************************************)
(* lib/validation/requests.ts                                               *)
(***************************************************************************)
\* lower / upper are always given and non-zero at the two call sites
isValidString(str, lower, upper) ==
    IF str.t # "string" \/ trim(str) = Str(0, 0, 0)
    THEN FALSE
    ELSE IF length(str) < lower \/ length(str) > upper
         THEN FALSE
         ELSE TRUE

isValidName(name) == isValidString(name, 3, 30)

isValidItemRequested(item) == isValidString(item, 2, 100)

validateCreateItemRequest(request) ==
    IF ~TruthyStr(request.requestorName) \/ ~TruthyStr(request.itemRequested)
    THEN Null
    ELSE IF ~isValidName(request.requestorName)
            \/ ~isValidItemRequested(request.itemRequested)
         THEN Null
         ELSE [requestorName |-> trim(request.requestorName),
               itemRequested |-> trim(request.itemRequested)]

\* variant: any string passes for a status
isValidStatusAnyString(status) == status.t = "string"

isValidStatus(status) == status.t = "string" /\ status.v \in RequestStatus

validateEditStatusRequest(request) ==
    IF ~TruthyId(request.id) \/ ~TruthyStatus(request.status)
    THEN Null
    ELSE IF request.id.t # "string" \/ idTrim(request.id) = IdStr(0, 0)
         THEN Null
         ELSE IF ~isValidStatus(request.status)
              THEN Null
              ELSE [id |-> idTrim(request.id), status |-> request.status.v]

\* variant: the invalid updates are dropped and the valid ones kept
validateUpdatesSkipInvalid(updates) ==
    LET valid == SelectSeq(updates, LAMBDA u : validateEditStatusRequest(u) # Null)
    IN  IF valid = <<>>
        THEN Null
        ELSE Arr([i \in 1..Len(valid) |-> validateEditStatusRequest(valid[i])])

\* the validation loop over request.updates: Null at the first invalid update,
\* else the validated updates in input order
validateUpdates(updates) ==
    IF \E i \in 1..Len(updates) : validateEditStatusRequest(updates[i]) = Null
    THEN Null
    ELSE Arr([i \in 1..Len(updates) |-> validateEditStatusRequest(updates[i])])

validateBatchEditStatusRequest(request) ==
    IF ~TruthyArr(request.updates) \/ request.updates.t # "array"
    THEN Null
    ELSE IF Len(request.updates.items) = 0
         THEN Null
         ELSE LET validatedUpdates == validateUpdates(request.updates.items)
              IN  IF validatedUpdates = Null
                  THEN Null
                  ELSE [updates |-> validatedUpdates.items]

\* variant: only the type of each id is checked, not that it is non-empty
validateIdsTypeOnly(ids) ==
    IF \E i \in 1..Len(ids) : ids[i].t # "string"
    THEN Null
    ELSE Arr([i \in 1..Len(ids) |-> idTrim(ids[i])])

\* the validation loop over request.ids: Null at the first invalid id, else
\* the trimmed ids in input order
validateIds(ids) ==
    IF \E i \in 1..Len(ids) : ids[i].t # "string" \/ idTrim(ids[i]) = IdStr(0, 0)
    THEN Null
    ELSE Arr([i \in 1..Len(ids) |-> idTrim(ids[i])])

validateBatchDeleteRequest(request) ==
    IF ~TruthyArr(request.ids) \/ request.ids.t # "array"
    THEN Null
    ELSE IF Len(request.ids.items) = 0
         THEN Null
         ELSE LET validatedIds == validateIds(request.ids.items)
              IN  IF validatedIds = Null
                  THEN Null
                  ELSE [ids |-> validatedIds.items]

(***************************************************************************)
(* server/models/request.model.ts: RequestSchema                            *)
(***************************************************************************)
\* the schema's setters and validators on save(): trim, then minlength /
\* maxlength on the trimmed value, and the status enum
RequestSchemaValid(doc) ==
    /\ length(trim(doc.requestorName)) >= 3
    /\ length(trim(doc.requestorName)) <= 30
    /\ length(trim(doc.itemRequested)) >= 2
    /\ length(trim(doc.itemRequested)) <= 100
    /\ doc.status \in RequestStatus

\* an id string Mongoose can cast to an ObjectId; any other raises CastError
Castable(key) == key >= 1

\* outcomes of one store operation addressed by id: it is carried out ("ok"),
\* or it raises (always for an id that is no ObjectId) and changes nothing
StoreOutcomes(key) == IF Castable(key) THEN {"ok", "error"} ELSE {"error"}

\* interface ItemRequest: the document with _id converted to the string id
ItemRequest(key, doc) ==
    [id |-> IdStr(0, key),
     requestorName |-> doc.requestorName,
     itemRequested |-> doc.itemRequested,
     requestCreatedDate |-> doc.requestCreatedDate,
     lastEditedDate |-> doc.lastEditedDate,
     status |-> doc.status]

(***************************************************************************)
(* State                                                                    *)
(***************************************************************************)
VARIABLES
    store,      \* the requests collection: ObjectId key -> document
    nextId,     \* the next ObjectId the store assigns (ids are never reused)
    clock,      \* the wall clock read by new Date()
    cached,     \* lib/db/mongodb.ts: cached.conn, cached.promise (0 is null)
    attempts,   \* the mongoose.connect promises still referenced: number -> state
    req,        \* per running request: the call of a server/requests.ts function
    ui,         \* app/admin/page.tsx: the React state of ItemRequestsPage
    net         \* app/admin/page.tsx: the handlers awaiting a response of the API

vars == <<store, nextId, clock, cached, attempts, req, ui, net>>

\* a request slot with no call in progress (first is history: the result the
\* caller was given by its previous call)
Idle ==
    [op |-> "none", pc |-> "idle", request |-> Undefined, validated |-> Null,
     awaiting |-> 0, currentDate |-> 0, idx |-> 0,
     updated |-> <<>>, failed |-> <<>>, deletedCount |-> 0,
     error |-> "none", message |-> "", ret |-> <<>>, first |-> <<>>,
     totalCount |-> 0]

(***************************************************************************)
(* The store primitives (Mongoose model methods), each one atomic           *)
(***************************************************************************)
\* variant: the update document also carries requestCreatedDate
findByIdAndUpdateAllDates(st, key, status, date) ==
    [st EXCEPT ![key] = [@ EXCEPT !.status = status, !.lastEditedDate = date,
                                  !.requestCreatedDate = date]]

\* variant: a document that already has the status is left as it is
findByIdAndUpdateSkipSame(st, key, status, date) ==
    IF st[key].status = status
    THEN st
    ELSE [st EXCEPT ![key] = [@ EXCEPT !.status = status, !.lastEditedDate = date]]

\* findByIdAndUpdate(id, {status, lastEditedDate}, {new: true}) on a document
\* that exists: the store after it
findByIdAndUpdate(st, key, status, date) ==
    [st EXCEPT ![key] = [@ EXCEPT !.status = status, !.lastEditedDate = date]]

\* findByIdAndDelete(id) on a document that exists: the store after it
findByIdAndDelete(st, key) == [k \in DOMAIN st \ {key} |-> st[k]]

\* save() of a new document under the ObjectId key
insert(st, key, doc) == [k \in DOMAIN st \cup {key} |-> IF k = key THEN doc ELSE st[k]]

\* app/admin/page.tsx: the initial values of the useState hooks of
\* ItemRequestsPage (the two form fields are inputs of handleAddRequest)
useState ==
    [requests |-> <<>>, selectedTab |-> "all", currentPage |-> 1, totalCount |-> 0,
     loading |-> TRUE, error |-> Null, selectedIds |-> <<>>, batchStatus |-> Undefined,
     mounted |-> FALSE]

(***************************************************************************)
(* server/requests.ts: the bodies of the four mutating functions, as        *)
(* functions of the call's record r and the store st                        *)
(***************************************************************************)
\* the validator each function applies to its request
validate(op, request) ==
    CASE op = "create" -> validateCreateItemRequest(request)
      [] op = "update" -> validateEditStatusRequest(request)
      [] op = "batchUpdate" -> validateBatchEditStatusRequest(request)
      [] op = "batchDelete" -> validateBatchDeleteRequest(request)
      [] op = "get" -> request

\* throw new InvalidInputError(...) / any other error: the call ends
throw(r, error) == [r EXCEPT !.pc = "done", !.awaiting = 0, !.error = error]

\* throw new InvalidInputError(message)
throwInvalidInput(r, message) == [throw(r, "InvalidInputError") EXCEPT !.message = message]

\* the message each function gives the InvalidInputError of a rejected payload
rejectedMessage(op) ==
    CASE op = "create" -> "created item request"
      [] op = "update" -> "edit item request"
      [] op = "batchUpdate" -> "batch edit item request"
      [] op = "batchDelete" -> "batch delete request"
      [] op = "get" -> ""

\* the code between `await connectDB()` and the first store operation
afterConnect(r, now) ==
    [r EXCEPT !.pc = "store", !.awaiting = 0, !.currentDate = now, !.idx = 1]

\* variant: the status and the last edited date of the payload are kept
newRequestFromPayload(r) ==
    [requestorName |-> trim(r.validated.requestorName),
     itemRequested |-> trim(r.validated.itemRequested),
     requestCreatedDate |-> r.currentDate,
     lastEditedDate |-> IF r.request.lastEditedDate.t = "date"
                        THEN r.request.lastEditedDate.v
                        ELSE r.currentDate,
     status |-> IF r.request.status.t = "string" THEN r.request.status.v ELSE PENDING]

\* createNewRequest: new RequestModel({...})
newRequest(r) ==
    [requestorName |-> trim(r.validated.requestorName),
     itemRequested |-> trim(r.validated.itemRequested),
     requestCreatedDate |-> r.currentDate,
     lastEditedDate |-> r.currentDate,
     status |-> PENDING]

\* createNewRequest: await newRequest.save() and the returned snapshot
createSave(r, st, key, outcome) ==
    LET doc == newRequest(r)
    IN  IF ~RequestSchemaValid(doc)
        THEN [req |-> throw(r, "ValidationError"), store |-> st]
        ELSE IF outcome = "error"
             THEN [req |-> throw(r, "StoreError"), store |-> st]
             ELSE [req |-> [r EXCEPT !.pc = "done", !.ret = <<ItemRequest(key, doc)>>],
                   store |-> insert(st, key, doc)]

\* variant: no check of the result, a missing record is returned as is
updateStoreNoThrow(r, st, outcome) ==
    LET key == r.validated.id.key
    IN  IF outcome = "error"
        THEN [req |-> throw(r, IF Castable(key) THEN "StoreError" ELSE "CastError"),
              store |-> st]
        ELSE IF key \notin DOMAIN st
             THEN [req |-> [r EXCEPT !.pc = "done"], store |-> st]
             ELSE LET st2 == findByIdAndUpdate(st, key, r.validated.status, r.currentDate)
                  IN  [req |-> [r EXCEPT !.pc = "done", !.ret = <<ItemRequest(key, st2[key])>>],
                       store |-> st2]

\* updateRequestStatus: findByIdAndUpdate, the not-found throw, the snapshot
updateStore(r, st, outcome) ==
    LET key == r.validated.id.key
    IN  IF outcome = "error"
        THEN [req |-> throw(r, IF Castable(key) THEN "StoreError" ELSE "CastError"),
              store |-> st]
        ELSE IF key \notin DOMAIN st
             THEN [req |-> throwInvalidInput(r, "edit item ID"), store |-> st]
             ELSE LET st2 == findByIdAndUpdate(st, key, r.validated.status, r.currentDate)
                  IN  [req |-> [r EXCEPT !.pc = "done", !.ret = <<ItemRequest(key, st2[key])>>],
                       store |-> st2]

\* variant: the loop leaves out the last item
forNextStopsEarly(r, n) ==
    [r EXCEPT !.idx = r.idx + 1, !.pc = IF r.idx + 1 >= n THEN "done" ELSE "store"]

\* the end of one iteration of a batch loop over n items
forNext(r, n) ==
    [r EXCEPT !.idx = r.idx + 1, !.pc = IF r.idx + 1 > n THEN "done" ELSE "store"]

\* variant: the error is swallowed and the id recorded nowhere
batchUpdateCatchSilent(r, st, id) == [req |-> r, store |-> st]

\* batchUpdateRequestStatuses: catch (error) { failed.push(update.id) }
batchUpdateCatch(r, st, id) == [req |-> [r EXCEPT !.failed = Append(@, id)], store |-> st]

\* variant: a failed item undoes the updates the batch has applied so far
batchUpdateNotFoundRollback(r, st, id) ==
    [req |-> [r EXCEPT !.failed = Append(@, id)],
     store |-> [k \in DOMAIN st |->
                  IF \E i \in 1..Len(r.updated) : r.updated[i].id.key = k
                  THEN [st[k] EXCEPT !.status = PENDING]
                  ELSE st[k]]]

\* variant: the id of a missing record is put in front of failed
batchUpdateNotFoundUnshift(r, st, id) == [req |-> [r EXCEPT !.failed = <<id>> \o @], store |-> st]

\* batchUpdateRequestStatuses: if (!updatedRequest) { failed.push(update.id) }
batchUpdateNotFound(r, st, id) == [req |-> [r EXCEPT !.failed = Append(@, id)], store |-> st]

\* variant: an updated item is also pushed to failed
batchUpdateFoundAndFailed(r, st, update) ==
    LET st2 == findByIdAndUpdate(st, update.id.key, update.status, r.currentDate)
    IN  [req |-> [r EXCEPT !.updated = Append(@, ItemRequest(update.id.key, st2[update.id.key])),
                           !.failed = Append(@, update.id)],
         store |-> st2]

\* batchUpdateRequestStatuses: else { updated.push({...}) } after the update
batchUpdateFound(r, st, update) ==
    LET st2 == findByIdAndUpdate(st, update.id.key, update.status, r.currentDate)
    IN  [req |-> [r EXCEPT !.updated = Append(@, ItemRequest(update.id.key, st2[update.id.key]))],
         store |-> st2]

\* batchUpdateRequestStatuses: one iteration of the loop, on updates[idx]
batchUpdateItem(r, st, outcome) ==
    LET update == r.validated.updates[r.idx]
        res == IF outcome = "error"
               THEN batchUpdateCatch(r, st, update.id)
               ELSE IF update.id.key \notin DOMAIN st
                    THEN batchUpdateNotFound(r, st, update.id)
                    ELSE batchUpdateFound(r, st, update)
    IN  [req |-> IF res.req.pc = "done"
                 THEN res.req
                 ELSE forNext(res.req, Len(r.validated.updates)),
         store |-> res.store]

\* variant: no try / catch around the delete, the error leaves the function
batchDeleteCatchRethrow(r, st, id) == [req |-> throw(r, "StoreError"), store |-> st]

\* batchDeleteRequests: catch (error) { failed.push(id) }
batchDeleteCatch(r, st, id) == [req |-> [r EXCEPT !.failed = Append(@, id)], store |-> st]

\* variant: a delete that found no record is counted as a deletion
batchDeleteNotFoundCounts(r, st, id) == [req |-> [r EXCEPT !.deletedCount = @ + 1], store |-> st]

\* batchDeleteRequests: if (!result) { failed.push(id) }
batchDeleteNotFound(r, st, id) == [req |-> [r EXCEPT !.failed = Append(@, id)], store |-> st]

\* variant: the record is counted but stays in the store
batchDeleteFoundKeeps(r, st, id) == [req |-> [r EXCEPT !.deletedCount = @ + 1], store |-> st]

\* batchDeleteRequests: else { deletedCount++ } after the delete
batchDeleteFound(r, st, id) ==
    [req |-> [r EXCEPT !.deletedCount = @ + 1], store |-> findByIdAndDelete(st, id.key)]

\* batchDeleteRequests: one iteration of the loop, on ids[idx]
batchDeleteItem(r, st, outcome) ==
    LET id == r.validated.ids[r.idx]
        res == IF outcome = "error"
               THEN batchDeleteCatch(r, st, id)
               ELSE IF id.key \notin DOMAIN st
                    THEN batchDeleteNotFound(r, st, id)
                    ELSE batchDeleteFound(r, st, id)
    IN  [req |-> IF res.req.pc = "done"
                 THEN res.req
                 ELSE forNext(res.req, Len(r.validated.ids)),
         store |-> res.store]

(***************************************************************************)
(* server/requests.ts: getItemRequests                                      *)
(***************************************************************************)
\* the fixed page size of lib/constants/config
PAGINATION_PAGE_SIZE == 2

Min(a, b) == IF a < b THEN a ELSE b

\* const filter = {}; if (status) { filter.status = status }: the keys of the
\* documents the filter matches
matching(st, status) ==
    {k \in DOMAIN st : TruthyStatus(status) => st[k].status = status.v}

\* countDocuments(filter)
countDocuments(st, status) == Cardinality(matching(st, status))

\* the orders sort({requestCreatedDate: -1}) can return the matching
\* documents in: newest first, documents of one date in any order
sortedOrders(st, status) ==
    {o \in [1..Cardinality(matching(st, status)) -> matching(st, status)] :
        /\ \A i, j \in DOMAIN o : i # j => o[i] # o[j]
        /\ \A i, j \in DOMAIN o :
              i < j => st[o[i]].requestCreatedDate >= st[o[j]].requestCreatedDate}

\* .skip(skip).limit(PAGINATION_PAGE_SIZE) on the sorted documents
skipLimit(order, skip) ==
    SubSeq(order, skip + 1, Min(Len(order), skip + PAGINATION_PAGE_SIZE))

\* requests.map(...): the documents in the format of ItemRequest
transformedRequests(st, keys) == [i \in DOMAIN keys |-> ItemRequest(keys[i], st[keys[i]])]

\* getItemRequests: await RequestModel.countDocuments(filter)
getCount(r, st, outcome) ==
    IF outcome = "error"
    THEN throw(r, "StoreError")
    ELSE [r EXCEPT !.pc = "find", !.totalCount = countDocuments(st, r.validated.status)]

\* variant: skip = page * PAGINATION_PAGE_SIZE
getFindSkipPage(r, st, outcome, order) ==
    LET skip == r.validated.page * PAGINATION_PAGE_SIZE
    IN  IF outcome = "error" \/ skip < 0
        THEN throw(r, "StoreError")
        ELSE [r EXCEPT !.pc = "done",
                       !.ret = transformedRequests(st, skipLimit(order, skip))]

\* getItemRequests: the find query and the result; a negative skip is
\* refused by the store
getFind(r, st, outcome, order) ==
    LET skip == (r.validated.page - 1) * PAGINATION_PAGE_SIZE
    IN  IF outcome = "error" \/ skip < 0
        THEN throw(r, "StoreError")
        ELSE [r EXCEPT !.pc = "done",
                       !.ret = transformedRequests(st, skipLimit(order, skip))]

(***************************************************************************)
(* app/api/request/route.ts: the route handlers around the functions        *)
(***************************************************************************)
\* PATCH: if (req.updates && Array.isArray(req.updates)) batch, else single
patchDispatch(body) ==
    IF "updates" \in DOMAIN body /\ TruthyArr(body.updates) /\ body.updates.t = "array"
    THEN "batchUpdate"
    ELSE "update"

\* the call r is one a route handler makes: GET, PUT, DELETE call their
\* function, PATCH the one it dispatches the body to
viaHandler(r) ==
    r.op \in {"update", "batchUpdate"} => r.op = patchDispatch(r.request)

\* e instanceof InputException: InvalidInputError is the InputException of
\* lib/errors/inputExceptions
instanceofInputException(error) == error = "InvalidInputError"

\* what the function returned, as the handler serialises it
result(r) ==
    CASE r.op = "batchUpdate" -> [updated |-> r.updated, failed |-> r.failed]
      [] r.op = "batchDelete" -> [deletedCount |-> r.deletedCount, failed |-> r.failed]
      [] r.op = "get" -> [requests |-> r.ret, totalCount |-> r.totalCount,
                          page |-> r.request.page]
      [] OTHER -> r.ret

\* variant: the catch block has no branch for InputException
responseNoInputBranch(r) ==
    IF r.error = "none"
    THEN [type |-> IF r.op = "create" THEN "201" ELSE "200", body |-> result(r)]
    ELSE [type |-> "UNKNOWN_ERROR", body |-> <<>>]

\* the Response of the handler whose call of the function has ended as r:
\* status 200 (201 for PUT) with the result, or in the catch block the
\* response ServerResponseBuilder builds for the ResponseType
response(r) ==
    IF r.error = "none"
    THEN [type |-> IF r.op = "create" THEN "201" ELSE "200", body |-> result(r)]
    ELSE IF instanceofInputException(r.error)
         THEN [type |-> "INVALID_INPUT", body |-> <<>>]
         ELSE [type |-> "UNKNOWN_ERROR", body |-> <<>>]

(***************************************************************************)
(* The payloads the callers send                                            *)
(***************************************************************************)
SeqsUpTo(S, n) == UNION {[1..m -> S] : m \in 0..n}

Payload(name, item, status, date) ==
    [requestorName |-> name, itemRequested |-> item, status |-> status, lastEditedDate |-> date]

Pair(id, status) == [id |-> id, status |-> status]

\* {requestorName: "Jane Doe", itemRequested: "Flashlights"}, the same with a
\* status and a date, one without a name, "a  " as the name, and a name of 30
\* characters after a blank
CreateInputs ==
    {Payload(Str(0, 8, 0), Str(0, 11, 0), Undefined, Undefined),
     Payload(Str(0, 8, 0), Str(0, 11, 0), StatusStr("approved"), [t |-> "date", v |-> 0]),
     Payload(Undefined, Str(0, 11, 0), Undefined, Undefined),
     Payload(Str(0, 1, 2), Str(0, 11, 0), Undefined, Undefined),
     Payload(Str(1, 30, 0), Str(0, 11, 0), Undefined, Undefined)}

\* the ids a caller names: two ObjectIds, one padded with a blank, "nonexistent"
ValidIds == {IdStr(0, 1), IdStr(0, 2), IdStr(1, 1), IdStr(0, -1)}

\* a number, "", "  "
InvalidIds == {Num, IdStr(0, 0), IdStr(2, 0)}

ValidPairs ==
    {Pair(IdStr(0, 1), StatusStr("approved")), Pair(IdStr(0, 2), StatusStr("approved")),
     Pair(IdStr(1, 1), StatusStr("rejected")), Pair(IdStr(0, -1), StatusStr("approved"))}

\* id missing, a number, ""; status not of the enum
InvalidPairs ==
    {Pair(Undefined, StatusStr("approved")), Pair(Num, StatusStr("approved")),
     Pair(IdStr(0, 0), StatusStr("approved")), Pair(IdStr(0, 1), StatusStr("PENDING"))}

\* the same, and id "  ", status missing, "", a number
UpdateInputs ==
    {Pair(IdStr(0, 1), StatusStr("completed")), Pair(IdStr(0, -1), StatusStr("completed")),
     Pair(IdStr(2, 0), StatusStr("approved")), Pair(IdStr(0, 1), Undefined),
     Pair(IdStr(0, 1), StatusStr("")), Pair(IdStr(0, 1), Num)}
    \cup InvalidPairs

BatchUpdateInputs ==
    {[updates |-> Undefined], [updates |-> NotArray]}
    \cup {[updates |-> Arr(u)] : u \in SeqsUpTo(ValidPairs \cup InvalidPairs, MaxBatch)}

BatchDeleteInputs ==
    {[ids |-> Undefined], [ids |-> NotArray]}
    \cup {[ids |-> Arr(u)] : u \in SeqsUpTo(ValidIds \cup InvalidIds, MaxBatch)}

Inputs(op) ==
    CASE op = "create" -> CreateInputs
      [] op = "update" -> UpdateInputs
      [] op = "batchUpdate" -> BatchUpdateInputs
      [] op = "batchDelete" -> BatchDeleteInputs

Ops == {"create", "update", "batchUpdate", "batchDelete"}

\* the payloads of SpecTime
TimeInputs(op) ==
    CASE op = "create" -> CreateInputs
      [] op = "update" -> {Pair(IdStr(0, 1), StatusStr("rejected"))}
      [] op = "batchUpdate" ->
            {[updates |-> Arr(u)] :
                u \in SeqsUpTo({Pair(IdStr(0, 1), StatusStr("approved")),
                                Pair(IdStr(0, 2), StatusStr("approved"))}, MaxBatch) \ {<<>>}}
      [] op = "batchDelete" -> {[ids |-> Arr(<<IdStr(0, 1)>>)]}

\* getItemRequests(page, status): the page parseInt gave (0 for ?page=0), no
\* status or one of two
GetInputs ==
    {[page |-> page, status |-> status] :
        page \in 0..MaxPage,
        status \in {Undefined, StatusStr("pending"), StatusStr("approved")}}

(***************************************************************************)
(* Actions                                                                  *)
(***************************************************************************)
Init ==
    /\ store = <<>>
    /\ nextId = 1
    /\ clock = 0
    /\ cached = [conn |-> FALSE, promise |-> 0]
    /\ attempts = <<>>
    /\ req = [p \in Procs |-> Idle]
    /\ ui = useState
    /\ net = {}

\* the number of a new promise: the least one no live promise has
NewPromise == CHOOSE k \in 1..(Cardinality(Procs) + 1) : k \notin DOMAIN attempts

Put(f, k, v) == [j \in DOMAIN f \cup {k} |-> IF j = k THEN v ELSE f[j]]

\* the promises still referenced by the cache or by a suspended connectDB call
\* (the others are garbage)
Collect(att, c, rq) ==
    [k \in {j \in DOMAIN att :
                \/ c.promise = j
                \/ \E q \in Procs : rq[q].pc = "awaitConn" /\ rq[q].awaiting = j}
        |-> att[k]]

\* variant: connectDB without `if (cached.conn) return cached.conn`
BeginIgnoresConn(p, r) ==
    /\ IF r.validated = Null
           THEN /\ req' = [req EXCEPT ![p] = throwInvalidInput(r, rejectedMessage(r.op))]
                /\ UNCHANGED <<cached, attempts>>
           ELSE IF cached.promise = 0
                THEN /\ attempts' = Put(attempts, NewPromise, "pending")
                     /\ cached' = [cached EXCEPT !.promise = NewPromise]
                     /\ req' = [req EXCEPT ![p] = [r EXCEPT !.pc = "awaitConn",
                                                           !.awaiting = NewPromise]]
                ELSE /\ req' = [req EXCEPT ![p] = [r EXCEPT !.pc = "awaitConn",
                                                           !.awaiting = cached.promise]]
                     /\ UNCHANGED <<cached, attempts>>
    /\ UNCHANGED <<store, nextId, clock, ui, net>>

\* One of the four functions up to its first suspension, r being the call
\* with its validated request: the throw of InvalidInputError, or connectDB()
\* up to its await (with cached.conn set it returns at once and the function
\* goes on to its first store operation).
Begin(p, r) ==
    /\ IF r.validated = Null
           THEN /\ req' = [req EXCEPT ![p] = throwInvalidInput(r, rejectedMessage(r.op))]
                /\ UNCHANGED <<cached, attempts>>
           ELSE IF cached.conn
                THEN /\ req' = [req EXCEPT ![p] = afterConnect(r, clock)]
                     /\ UNCHANGED <<cached, attempts>>
                ELSE IF cached.promise = 0
                     THEN /\ attempts' = Put(attempts, NewPromise, "pending")
                          /\ cached' = [cached EXCEPT !.promise = NewPromise]
                          /\ req' = [req EXCEPT ![p] = [r EXCEPT !.pc = "awaitConn",
                                                                !.awaiting = NewPromise]]
                     ELSE /\ req' = [req EXCEPT ![p] = [r EXCEPT !.pc = "awaitConn",
                                                                !.awaiting = cached.promise]]
                          /\ UNCHANGED <<cached, attempts>>
    /\ UNCHANGED <<store, nextId, clock, ui, net>>

\* a call of one of the four functions, with its validation
Call(p, op, request) ==
    /\ req[p].pc = "idle"
    /\ Begin(p, [Idle EXCEPT !.op = op, !.request = request,
                             !.validated = validate(op, request)])

\* The caller of updateRequestStatus, given the updated snapshot, sends the
\* same request a second time (first keeps the snapshot it was given).
Again(p) ==
    /\ req[p].op = "update" /\ req[p].pc = "done" /\ req[p].error = "none"
    /\ req[p].first = <<>>
    /\ Begin(p, [Idle EXCEPT !.op = "update", !.request = req[p].request,
                             !.validated = validate("update", req[p].request),
                             !.first = req[p].ret])

\* mongoose.connect settles: the promise resolves or rejects
Settle(k, outcome) ==
    /\ k \in DOMAIN attempts
    /\ attempts[k] = "pending"
    /\ attempts' = [attempts EXCEPT ![k] = outcome]
    /\ UNCHANGED <<store, nextId, clock, cached, req, ui, net>>

\* connectDB after `await cached.promise`: cached.conn is set and the caller
\* goes on, or cached.promise is cleared and the error is rethrown
Connected(p) ==
    /\ req[p].pc = "awaitConn"
    /\ attempts[req[p].awaiting] = "resolved"
    /\ cached' = [cached EXCEPT !.conn = TRUE]
    /\ req' = [req EXCEPT ![p] = afterConnect(req[p], clock)]
    /\ attempts' = Collect(attempts, cached', req')
    /\ UNCHANGED <<store, nextId, clock, ui, net>>

\* variant: the rejected promise stays in the cache
ConnectFailedKeepsPromise(p) ==
    /\ req[p].pc = "awaitConn"
    /\ attempts[req[p].awaiting] = "rejected"
    /\ req' = [req EXCEPT ![p] = throw(req[p], "ConnectionError")]
    /\ attempts' = Collect(attempts, cached, req')
    /\ UNCHANGED <<store, nextId, clock, cached, ui, net>>

ConnectFailed(p) ==
    /\ req[p].pc = "awaitConn"
    /\ attempts[req[p].awaiting] = "rejected"
    /\ cached' = [cached EXCEPT !.promise = 0]
    /\ req' = [req EXCEPT ![p] = throw(req[p], "ConnectionError")]
    /\ attempts' = Collect(attempts, cached', req')
    /\ UNCHANGED <<store, nextId, clock, ui, net>>

\* createNewRequest: the save
CreateStep(p, outcome, maxIds) ==
    /\ req[p].pc = "store" /\ req[p].op = "create"
    /\ nextId <= maxIds
    /\ LET res == createSave(req[p], store, nextId, outcome)
       IN  /\ req' = [req EXCEPT ![p] = res.req]
           /\ store' = res.store
           /\ nextId' = IF res.req.error = "none" THEN nextId + 1 ELSE nextId
    /\ UNCHANGED <<clock, cached, attempts, ui, net>>

\* updateRequestStatus: the findByIdAndUpdate
UpdateStep(p, outcome) ==
    /\ req[p].pc = "store" /\ req[p].op = "update"
    /\ outcome \in StoreOutcomes(req[p].validated.id.key)
    /\ LET res == updateStore(req[p], store, outcome)
       IN  /\ req' = [req EXCEPT ![p] = res.req]
           /\ store' = res.store
    /\ UNCHANGED <<nextId, clock, cached, attempts, ui, net>>

\* batchUpdateRequestStatuses: one iteration of the loop
BatchUpdateStep(p, outcome) ==
    /\ req[p].pc = "store" /\ req[p].op = "batchUpdate"
    /\ outcome \in StoreOutcomes(req[p].validated.updates[req[p].idx].id.key)
    /\ LET res == batchUpdateItem(req[p], store, outcome)
       IN  /\ req' = [req EXCEPT ![p] = res.req]
           /\ store' = res.store
    /\ UNCHANGED <<nextId, clock, cached, attempts, ui, net>>

\* batchDeleteRequests: one iteration of the loop
BatchDeleteStep(p, outcome) ==
    /\ req[p].pc = "store" /\ req[p].op = "batchDelete"
    /\ outcome \in StoreOutcomes(req[p].validated.ids[req[p].idx].key)
    /\ LET res == batchDeleteItem(req[p], store, outcome)
       IN  /\ req' = [req EXCEPT ![p] = res.req]
           /\ store' = res.store
    /\ UNCHANGED <<nextId, clock, cached, attempts, ui, net>>

\* getItemRequests: the countDocuments
GetCountStep(p, outcome) ==
    /\ req[p].pc = "store" /\ req[p].op = "get"
    /\ req' = [req EXCEPT ![p] = getCount(req[p], store, outcome)]
    /\ UNCHANGED <<store, nextId, clock, cached, attempts, ui, net>>

\* getItemRequests: the find, in one of the orders the sort allows
GetFindStep(p, outcome) ==
    /\ req[p].pc = "find" /\ req[p].op = "get"
    /\ \E order \in sortedOrders(store, req[p].validated.status) :
          req' = [req EXCEPT ![p] = getFind(req[p], store, outcome, order)]
    /\ UNCHANGED <<store, nextId, clock, cached, attempts, ui, net>>

\* The store operations of the other requests running at the same time, each
\* one atomic in the store: the save of a createNewRequest, the
\* findByIdAndUpdate of an updateRequestStatus or of a batch item (with the
\* status its validator let through and the date it read when it started),
\* the findByIdAndDelete of a batch delete item.
OtherSave(date, maxIds) ==
    /\ cached.conn
    /\ nextId <= maxIds
    /\ store' = insert(store, nextId,
                       [requestorName |-> Str(0, 8, 0), itemRequested |-> Str(0, 11, 0),
                        requestCreatedDate |-> date, lastEditedDate |-> date,
                        status |-> PENDING])
    /\ nextId' = nextId + 1
    /\ UNCHANGED <<clock, cached, attempts, req, ui, net>>

OtherFindByIdAndUpdate(key, status, date) ==
    /\ cached.conn
    /\ key \in DOMAIN store
    /\ store' = findByIdAndUpdate(store, key, status, date)
    /\ store' # store
    /\ UNCHANGED <<nextId, clock, cached, attempts, req, ui, net>>

OtherFindByIdAndDelete(key) ==
    /\ cached.conn
    /\ key \in DOMAIN store
    /\ store' = findByIdAndDelete(store, key)
    /\ UNCHANGED <<nextId, clock, cached, attempts, req, ui, net>>

\* the caller has its result (or its exception); the slot is free again
Return(p) ==
    /\ req[p].pc = "done"
    /\ req' = [req EXCEPT ![p] = Idle]
    /\ UNCHANGED <<store, nextId, clock, cached, attempts, ui, net>>

\* time passes
Tick ==
    /\ clock < MaxClock
    /\ clock' = clock + 1
    /\ UNCHANGED <<store, nextId, cached, attempts, req, ui, net>>

\* every step of a followed request after its call, in a store that assigns
\* at most maxIds ObjectIds
Step(maxIds) ==
    \/ \E k \in DOMAIN attempts, outcome \in {"resolved", "rejected"} : Settle(k, outcome)
    \/ \E p \in Procs : Connected(p)
    \/ \E p \in Procs : ConnectFailed(p)
    \/ \E p \in Procs, outcome \in {"ok", "error"} : CreateStep(p, outcome, maxIds)
    \/ \E p \in Procs, outcome \in {"ok", "error"} : UpdateStep(p, outcome)
    \/ \E p \in Procs, outcome \in {"ok", "error"} : BatchUpdateStep(p, outcome)
    \/ \E p \in Procs, outcome \in {"ok", "error"} : BatchDeleteStep(p, outcome)
    \/ \E p \in Procs : Return(p)

\* the store operations of the other requests, which read the clock at date
Other(date, maxIds) ==
    \/ OtherSave(date, maxIds)
    \/ \E key \in DOMAIN store, status \in RequestStatus :
          OtherFindByIdAndUpdate(key, status, date)
    \/ \E key \in DOMAIN store : OtherFindByIdAndDelete(key)

\* Spec: every payload, at one instant of the clock
Next ==
    \/ \E p \in Followed, op \in Ops : \E request \in Inputs(op) : Call(p, op, request)
    \/ Step(MaxIds)
    \/ Other(clock, MaxIds)

Spec == Init /\ [][Next]_vars

\* SpecTime: the payloads that reach the store, while time passes
NextTime ==
    \/ \E p \in Followed, op \in Ops : \E request \in TimeInputs(op) : Call(p, op, request)
    \/ Step(MaxTimeIds)
    \/ Other(clock, MaxTimeIds)
    \/ Tick
    \/ \E p \in Procs : Again(p)

SpecTime == Init /\ [][NextTime]_vars

\* SpecOld: every payload, at one instant of the clock, on a store that holds
\* a record created at an earlier instant (the collection outlives the process)
InitOld ==
    /\ store = [k \in {1} |->
                  [requestorName |-> Str(0, 8, 0), itemRequested |-> Str(0, 11, 0),
                   requestCreatedDate |-> -1, lastEditedDate |-> -1,
                   status |-> PENDING]]
    /\ nextId = 2
    /\ clock = 0
    /\ cached = [conn |-> FALSE, promise |-> 0]
    /\ attempts = <<>>
    /\ req = [p \in Procs |-> Idle]
    /\ ui = useState
    /\ net = {}

SpecOld == InitOld /\ [][Next]_vars

\* SpecGet: getItemRequests on a store that holds a record created at an
\* earlier instant, while other requests create records at one instant of the
\* clock, approve records and delete them
NextGet ==
    \/ \E p \in Followed, request \in GetInputs : Call(p, "get", request)
    \/ \E k \in DOMAIN attempts, outcome \in {"resolved", "rejected"} : Settle(k, outcome)
    \/ \E p \in Procs : Connected(p)
    \/ \E p \in Procs : ConnectFailed(p)
    \/ \E p \in Procs, outcome \in {"ok", "error"} : GetCountStep(p, outcome)
    \/ \E p \in Procs, outcome \in {"ok", "error"} : GetFindStep(p, outcome)
    \/ \E p \in Procs : Return(p)
    \/ OtherSave(clock, MaxGetIds)
    \/ \E key \in DOMAIN store : OtherFindByIdAndUpdate(key, "approved", clock)
    \/ \E key \in DOMAIN store : OtherFindByIdAndDelete(key)

SpecGet == InitOld /\ [][NextGet]_vars

\* no continuation of an await on a settled promise is waiting to run
NoReaction ==
    \A p \in Procs : req[p].pc = "awaitConn" => attempts[req[p].awaiting] = "pending"

\* SpecConnect: the requests that meet in connectDB. The continuations of the
\* callers awaiting a promise that has settled are promise reactions: they
\* run, each in one piece, before the event loop starts a new request or
\* delivers another result of the store.
NextConnect ==
    \/ /\ NoReaction
       /\ \E p \in Procs : Call(p, "get", [page |-> 1, status |-> Undefined])
    \/ /\ NoReaction
       /\ \E k \in DOMAIN attempts, outcome \in {"resolved", "rejected"} : Settle(k, outcome)
    \/ \E p \in Procs : Connected(p)
    \/ \E p \in Procs : ConnectFailed(p)
    \/ /\ NoReaction
       /\ \E p \in Procs, outcome \in {"ok", "error"} : GetCountStep(p, outcome)
    \/ /\ NoReaction
       /\ \E p \in Procs, outcome \in {"ok", "error"} : GetFindStep(p, outcome)
    \/ /\ NoReaction
       /\ \E p \in Procs : Return(p)

SpecConnect == Init /\ [][NextConnect]_vars

\* the outcome of a store operation on a store that works: it is carried out
\* whenever the id can be cast
working(key) == IF Castable(key) THEN "ok" ELSE "error"

\* SpecEndToEnd: one caller on an otherwise quiet store that works; it
\* creates a record when the store is empty, approves in a batch the record
\* it was given, then deletes it in a batch together with "nonexistent", and
\* makes a call again when the connection could not be made; the other
\* callers only read
NextEndToEnd ==
    \/ \E p \in Followed :
          /\ DOMAIN store = {}
          /\ Call(p, "create", Payload(Str(0, 8, 0), Str(0, 11, 0), Undefined, Undefined))
    \/ \E p \in Followed, k \in DOMAIN store :
          /\ store[k].status = PENDING
          /\ Call(p, "batchUpdate",
                  [updates |-> Arr(<<Pair(IdStr(0, k), StatusStr("approved"))>>)])
    \/ \E p \in Followed, k \in DOMAIN store :
          /\ store[k].status = "approved"
          /\ Call(p, "batchDelete", [ids |-> Arr(<<IdStr(0, k), IdStr(0, -1)>>)])
    \/ \E p \in Procs \ Followed : Call(p, "get", [page |-> 1, status |-> Undefined])
    \/ \E k \in DOMAIN attempts, outcome \in {"resolved", "rejected"} : Settle(k, outcome)
    \/ \E p \in Procs : Connected(p)
    \/ \E p \in Procs : ConnectFailed(p)
    \/ \E p \in Procs : GetCountStep(p, "ok")
    \/ \E p \in Procs : GetFindStep(p, "ok")
    \/ \E p \in Procs : CreateStep(p, "ok", MaxIds)
    \/ \E p \in Procs :
          /\ req[p].op = "batchUpdate" /\ req[p].pc = "store"
          /\ BatchUpdateStep(p, working(req[p].validated.updates[req[p].idx].id.key))
    \/ \E p \in Procs :
          /\ req[p].op = "batchDelete" /\ req[p].pc = "store"
          /\ BatchDeleteStep(p, working(req[p].validated.ids[req[p].idx].key))
    \/ \E p \in Procs : Return(p)
    \/ Tick

SpecEndToEnd == Init /\ [][NextEndToEnd]_vars

(***************************************************************************)
(* components/molecules/Pagination.tsx                                      *)
(***************************************************************************)
firstRecordOnPage(pageNumber, pageSize) == (pageNumber - 1) * pageSize + 1

lastRecordOnPage(pageNumber, pageSize, totalRecords) ==
    Min(firstRecordOnPage(pageNumber, pageSize) + pageSize - 1, totalRecords)

isValidPage(pageNumber, pageSize, totalRecords) ==
    /\ firstRecordOnPage(pageNumber, pageSize) > 0
    /\ firstRecordOnPage(pageNumber, pageSize) <= totalRecords

\* the disabled prop of the left ArrowButton
leftDisabled(pageNumber, pageSize) == firstRecordOnPage(pageNumber, pageSize) <= 1

\* variant: the right arrow is disabled only past the last record
rightDisabledPastEnd(pageNumber, pageSize, totalRecords) ==
    lastRecordOnPage(pageNumber, pageSize, totalRecords) > totalRecords

\* the disabled prop of the right ArrowButton
rightDisabled(pageNumber, pageSize, totalRecords) ==
    lastRecordOnPage(pageNumber, pageSize, totalRecords) >= totalRecords

\* Pagination as rendered: the pages a click on one of its arrows calls
\* onPageChange with (ArrowButton: onClick={disabled ? undefined : onClick});
\* none when the component renders nothing
Pagination(pageNumber, pageSize, totalRecords) ==
    IF ~isValidPage(pageNumber, pageSize, totalRecords)
    THEN {}
    ELSE {pageNumber - 1 : x \in {d \in {1} : ~leftDisabled(pageNumber, pageSize)}}
         \cup {pageNumber + 1 : x \in {d \in {1} : ~rightDisabled(pageNumber, pageSize, totalRecords)}}

(***************************************************************************)
(* app/admin/page.tsx: ItemRequestsPage, with the API behind fetch()        *)
(***************************************************************************)
\* the tabs and the statuses of the "Mark as" dropdown the user picks from
AdminTabs == {"all", "pending"}
AdminStatuses == {"approved"}

\* the values of the two form fields when Add Request is clicked
FormInputs == {Str(1, 0, 0), Str(0, 8, 0)}

\* a handler awaiting a response: the fetch it sent and the values its
\* closure holds (page and tab are the currentPage and selectedTab of the
\* render in which the handler was created; of is the handler that awaits
\* fetchRequests)
Await(kind, page, tab, ids, status, name, item, of) ==
    [kind |-> kind, page |-> page, tab |-> tab, ids |-> ids, status |-> status,
     name |-> name, item |-> item, of |-> of]

\* fetchRequests up to `await fetch(...)`, with the page and tab of its closure
fetchRequests(page, tab, of) ==
    Await("GET", page, tab, <<>>, Undefined, Undefined, Undefined, of)
fetchStarted(u) == [u EXCEPT !.loading = TRUE, !.error = Null]

\* useEffect(() => { fetchRequests() }, [currentPage, selectedTab]): the
\* calls the effect adds after a render that changed u to u2
useEffect(u, u2) ==
    IF u2.currentPage # u.currentPage \/ u2.selectedTab # u.selectedTab
    THEN {fetchRequests(u2.currentPage, u2.selectedTab, "useEffect")}
    ELSE {}

\* the state after the render and its effect
rendered(u, u2) == IF useEffect(u, u2) = {} THEN u2 ELSE fetchStarted(u2)

\* the calls a route handler can end in, on a store that works: the function
\* runs ("ok"), or connectDB fails ("down", only while no connection is
\* cached)
ServeOutcomes == IF cached.conn THEN {"ok"} ELSE {"ok", "down"}

\* one of the functions of server/requests.ts from its first store operation
\* to its end
RECURSIVE run(_, _, _, _, _)
run(r, st, key, outcome, order) ==
    IF r.pc = "done"
    THEN [req |-> r, store |-> st]
    ELSE LET res ==
               CASE r.op = "create" -> createSave(r, st, key, outcome)
                 [] r.op = "batchUpdate" ->
                      batchUpdateItem(r, st, IF outcome = "ok"
                                             THEN working(r.validated.updates[r.idx].id.key)
                                             ELSE "error")
                 [] r.op = "batchDelete" ->
                      batchDeleteItem(r, st, IF outcome = "ok"
                                             THEN working(r.validated.ids[r.idx].key)
                                             ELSE "error")
                 [] r.op = "get" /\ r.pc = "store" ->
                      [req |-> getCount(r, st, outcome), store |-> st]
                 [] r.op = "get" /\ r.pc = "find" ->
                      [req |-> getFind(r, st, outcome, order), store |-> st]
         IN  run(res.req, res.store, key, outcome, order)

\* a route handler from the request to the response
serve(op, request, st, key, now, outcome, order) ==
    LET r == [Idle EXCEPT !.op = op, !.request = request, !.validated = validate(op, request)]
    IN  IF r.validated = Null
        THEN [req |-> throwInvalidInput(r, rejectedMessage(op)), store |-> st]
        ELSE IF outcome = "down"
             THEN [req |-> throw(r, "ConnectionError"), store |-> st]
             ELSE run(afterConnect(r, now), st, key, outcome, order)

\* response.ok
ok(r) == response(r).type \in {"200", "201"}

\* the backend after a request was served
Served(op, res, outcome) ==
    /\ store' = res.store
    /\ nextId' = IF DOMAIN res.store \subseteq DOMAIN store THEN nextId ELSE nextId + 1
    /\ cached' = IF outcome = "down" \/ cached.conn
                  THEN cached
                  ELSE [conn |-> TRUE, promise |-> 1]
    /\ attempts' = IF outcome = "down" \/ cached.conn
                    THEN attempts
                    ELSE Put(<<>>, 1, "resolved")
    /\ UNCHANGED <<clock, req>>

\* handleAddRequest up to `await fetch("/api/request", {method: "PUT"})`
handleAddRequest(requestorName, itemRequested) ==
    /\ ui.mounted
    /\ IF \/ ~TruthyStr(trim(requestorName)) \/ ~TruthyStr(trim(itemRequested))
          \/ length(trim(requestorName)) < 3 \/ length(trim(requestorName)) > 30
          \/ length(trim(itemRequested)) < 2 \/ length(trim(itemRequested)) > 100
       THEN UNCHANGED net
       ELSE net' = net \cup {Await("PUT", ui.currentPage, ui.selectedTab, <<>>, Undefined,
                                   trim(requestorName), trim(itemRequested), "handleAddRequest")}
    /\ UNCHANGED <<store, nextId, clock, cached, attempts, req, ui>>

\* handleAddRequest from the response of the PUT: setCurrentPage(1) and
\* fetchRequests() of the handler's closure, then the effect of the render
AddResponse(c, outcome) ==
    /\ c \in net /\ c.kind = "PUT"
    /\ LET res == serve("create", Payload(c.name, c.item, Undefined, Undefined),
                        store, nextId, clock, outcome, <<>>)
       IN  /\ Served("create", res, outcome)
           /\ IF ok(res.req)
              THEN LET u2 == [ui EXCEPT !.currentPage = 1]
                   IN  /\ ui' = fetchStarted(u2)
                       /\ net' = (net \ {c})
                                   \cup {fetchRequests(c.page, c.tab, "handleAddRequest")}
                                   \cup useEffect(ui, u2)
              ELSE /\ net' = net \ {c}
                   /\ UNCHANGED ui

\* the StatusDropdown's onChange: setBatchStatus(newStatus) and
\* handleBatchEdit(newStatus) up to its `await fetch(..., {method: "PATCH"})`
handleBatchEdit(newStatus) ==
    /\ ui.mounted
    /\ ui' = [ui EXCEPT !.batchStatus = StatusStr(newStatus)]
    /\ IF Len(ui.selectedIds) = 0
       THEN UNCHANGED net
       ELSE net' = net \cup {Await("PATCH", ui.currentPage, ui.selectedTab, ui.selectedIds,
                                   StatusStr(newStatus), Undefined, Undefined, "handleBatchEdit")}
    /\ UNCHANGED <<store, nextId, clock, cached, attempts, req>>

\* handleBatchDelete (the button is disabled while nothing is selected) up to
\* its `await fetch(..., {method: "DELETE"})`
handleBatchDelete ==
    /\ ui.mounted
    /\ Len(ui.selectedIds) # 0
    /\ net' = net \cup {Await("DELETE", ui.currentPage, ui.selectedTab, ui.selectedIds,
                               Undefined, Undefined, Undefined, "handleBatchDelete")}
    /\ UNCHANGED <<store, nextId, clock, cached, attempts, req, ui>>

\* handleBatchEdit / handleBatchDelete from the response of the PATCH /
\* DELETE: fetchRequests() of the handler's closure
BatchResponse(c, outcome) ==
    /\ c \in net /\ c.kind \in {"PATCH", "DELETE"}
    /\ LET res == IF c.kind = "PATCH"
                  THEN serve("batchUpdate",
                             [updates |-> Arr([i \in 1..Len(c.ids) |-> Pair(c.ids[i], c.status)])],
                             store, nextId, clock, outcome, <<>>)
                  ELSE serve("batchDelete", [ids |-> Arr(c.ids)],
                             store, nextId, clock, outcome, <<>>)
       IN  /\ Served(res.req.op, res, outcome)
           /\ IF ok(res.req)
              THEN /\ ui' = fetchStarted(ui)
                   /\ net' = (net \ {c}) \cup {fetchRequests(c.page, c.tab, c.of)}
              ELSE /\ net' = net \ {c}
                   /\ UNCHANGED ui

\* const transformedData = data.requests.map(...): the rows of the table
transformedData(requests) == requests

\* fetchRequests from the response of the GET to its end, and the rest of
\* the handler that awaited it: setSelectedIds([]) in handleBatchEdit and
\* handleBatchDelete
FetchResponse(c, outcome) ==
    /\ c \in net /\ c.kind = "GET"
    /\ \E order \in sortedOrders(store, IF c.tab = "all" THEN Undefined ELSE StatusStr(c.tab)) :
         LET res == serve("get", [page |-> c.page,
                                  status |-> IF c.tab = "all" THEN Undefined ELSE StatusStr(c.tab)],
                          store, nextId, clock, outcome, order)
             u2 == IF ok(res.req)
                   THEN [ui EXCEPT !.requests = transformedData(res.req.ret),
                                   !.totalCount = res.req.totalCount,
                                   !.loading = FALSE]
                   ELSE [ui EXCEPT !.error = StatusStr("Failed to fetch requests"),
                                   !.loading = FALSE]
         IN  /\ Served("get", res, outcome)
             /\ ui' = IF c.of \in {"handleBatchEdit", "handleBatchDelete"}
                       THEN [u2 EXCEPT !.selectedIds = <<>>]
                       ELSE u2
             /\ net' = net \ {c}

\* handleTabChange, and the effect of the render
handleTabChange(tabId) ==
    /\ ui.mounted
    /\ LET u2 == [ui EXCEPT !.selectedTab = tabId, !.currentPage = 1, !.selectedIds = <<>>]
       IN  /\ ui' = rendered(ui, u2)
           /\ net' = net \cup useEffect(ui, u2)
    /\ UNCHANGED <<store, nextId, clock, cached, attempts, req>>

\* a click on an arrow of Pagination (rendered when !loading and
\* totalCount > 0): handlePageChange, and the effect of the render
handlePageChange(newPage) ==
    /\ ui.mounted /\ ~ui.loading /\ ui.totalCount > 0
    /\ newPage \in Pagination(ui.currentPage, PAGINATION_PAGE_SIZE, ui.totalCount)
    /\ LET u2 == [ui EXCEPT !.currentPage = newPage, !.selectedIds = <<>>]
       IN  /\ ui' = rendered(ui, u2)
           /\ net' = net \cup useEffect(ui, u2)
    /\ UNCHANGED <<store, nextId, clock, cached, attempts, req>>

\* RequestsTable (rendered when !loading): handleSelectAll
handleSelectAll ==
    /\ ui.mounted /\ ~ui.loading
    /\ ui' = [ui EXCEPT !.selectedIds =
                  IF Len(ui.selectedIds) > 0
                  THEN <<>>
                  ELSE [i \in 1..Len(ui.requests) |-> ui.requests[i].id]]
    /\ UNCHANGED <<store, nextId, clock, cached, attempts, req, net>>

\* array.includes / array.filter on selectedIds
includes(ids, id) == \E i \in 1..Len(ids) : ids[i] = id
without(ids, id) == SelectSeq(ids, LAMBDA selectedId : selectedId # id)

\* RequestsTable: the checkbox of a row, checked={isSelected}, whose
\* onChange calls handleSelectOne(request.id, e.target.checked)
handleSelectOne(id) ==
    /\ ui.mounted /\ ~ui.loading
    /\ \E i \in 1..Len(ui.requests) : ui.requests[i].id = id
    /\ ui' = [ui EXCEPT !.selectedIds =
                  IF ~includes(ui.selectedIds, id)
                  THEN Append(ui.selectedIds, id)
                  ELSE without(ui.selectedIds, id)]
    /\ UNCHANGED <<store, nextId, clock, cached, attempts, req, net>>

\* SpecAdmin: the admin page open on a store of three pending requests, its
\* first fetch sent by the effect of the first render; at most MaxInFlight
\* handlers wait for the API when the user starts another
InitAdmin ==
    /\ store = [k \in 1..3 |->
                  [requestorName |-> Str(0, 8, 0), itemRequested |-> Str(0, 11, 0),
                   requestCreatedDate |-> k - 4, lastEditedDate |-> k - 4,
                   status |-> PENDING]]
    /\ nextId = 4
    /\ clock = 0
    /\ cached = [conn |-> FALSE, promise |-> 0]
    /\ attempts = <<>>
    /\ req = [p \in Procs |-> Idle]
    /\ ui = [useState EXCEPT !.mounted = TRUE]
    /\ net = {fetchRequests(1, "all", "useEffect")}

Puts == {c \in net : c.kind = "PUT"}

NextAdmin ==
    \/ /\ Cardinality(net) < MaxInFlight
       /\ nextId + Cardinality(Puts) <= MaxAdminIds
       /\ \E requestorName \in FormInputs : handleAddRequest(requestorName, Str(0, 11, 0))
    \/ /\ Cardinality(net) < MaxInFlight
       /\ \E newStatus \in AdminStatuses : handleBatchEdit(newStatus)
    \/ /\ Cardinality(net) < MaxInFlight
       /\ handleBatchDelete
    \/ /\ Cardinality(net) < MaxInFlight
       /\ \E tabId \in AdminTabs : handleTabChange(tabId)
    \/ /\ Cardinality(net) < MaxInFlight
       /\ \E newPage \in 0..(MaxPage + 1) : handlePageChange(newPage)
    \/ handleSelectAll
    \/ \E id \in {IdStr(0, k) : k \in 1..MaxAdminIds} : handleSelectOne(id)
    \/ \E c \in net, outcome \in ServeOutcomes : AddResponse(c, outcome)
    \/ \E c \in net, outcome \in ServeOutcomes : BatchResponse(c, outcome)
    \/ \E c \in net, outcome \in ServeOutcomes : FetchResponse(c, outcome)

SpecAdmin == InitAdmin /\ [][NextAdmin]_vars

\* SpecPagination: Pagination under a parent that passes back as pageNumber
\* the page onPageChange was called with, totalRecords staying as it is. The
\* parent starts it on page 1, or on a page that is not valid for the total.
InitPagination ==
    /\ store = <<>>
    /\ nextId = 1
    /\ clock = 0
    /\ cached = [conn |-> FALSE, promise |-> 0]
    /\ attempts = <<>>
    /\ req = [p \in Procs |-> Idle]
    /\ net = {}
    /\ \E pageNumber \in 0..(MaxRecords \div PAGINATION_PAGE_SIZE + 2), totalRecords \in 0..MaxRecords :
          /\ pageNumber = 1 \/ ~isValidPage(pageNumber, PAGINATION_PAGE_SIZE, totalRecords)
          /\ ui = [useState EXCEPT !.mounted = TRUE, !.loading = FALSE,
                                   !.currentPage = pageNumber, !.totalCount = totalRecords]

\* a click on an arrow: onPageChange(newPage), and the parent's new render
onPageChange(newPage) ==
    /\ newPage \in Pagination(ui.currentPage, PAGINATION_PAGE_SIZE, ui.totalCount)
    /\ ui' = [ui EXCEPT !.currentPage = newPage]
    /\ UNCHANGED <<store, nextId, clock, cached, attempts, req, net>>

NextPagination ==
    \E newPage \in -1..(MaxRecords \div PAGINATION_PAGE_SIZE + 3) : onPageChange(newPage)

SpecPagination == InitPagination /\ [][NextPagination]_vars

(***************************************************************************)
(* Properties                                                               *)
(***************************************************************************)
\* a batch status update that has returned its result
BatchUpdateReturned(p) ==
    req[p].op = "batchUpdate" /\ req[p].pc = "done" /\ req[p].error = "none"

\* the updates of the payload, as sent
SentUpdates(p) == req[p].request.updates.items

Distinct(seq) == \A i, j \in 1..Len(seq) : i # j => seq[i] # seq[j]

\* C1: a validated batch status update whose connection succeeded returns
\* len(updated) + len(failed) = len(input updates), whatever the store holds
\* and whatever each store operation does (found, not found, error).
C1_LengthsAddUp ==
    \A p \in Procs :
        BatchUpdateReturned(p) =>
            Len(req[p].updated) + Len(req[p].failed) = Len(SentUpdates(p))

\* a returned batch with an updated item and a failed one
C1_Witness ==
    \E p \in Procs :
        /\ BatchUpdateReturned(p)
        /\ Len(SentUpdates(p)) = MaxBatch
        /\ Len(req[p].updated) >= 1
        /\ Len(req[p].failed) >= 1

InUpdated(p, id) == \E i \in 1..Len(req[p].updated) : req[p].updated[i].id = id
InFailed(p, id) == \E i \in 1..Len(req[p].failed) : req[p].failed[i] = id

\* the identifiers of the payload, trimmed as the validator trims them
SentIds(p) == [i \in 1..Len(SentUpdates(p)) |-> idTrim(SentUpdates(p)[i].id)]

InExactlyOneList(p) ==
    \A i \in 1..Len(SentIds(p)) : InUpdated(p, SentIds(p)[i]) # InFailed(p, SentIds(p)[i])

NotNonEmptyString(v) == v.t # "string" \/ idLength(v) = 0

\* a structurally invalid pair
InvalidPair(u) ==
    \/ NotNonEmptyString(u.id)
    \/ u.status.t # "string"
    \/ u.status.v \notin RequestStatus

BatchItems(r) == IF r.op = "batchUpdate" THEN r.validated.updates ELSE r.validated.ids
BatchId(r) == IF r.op = "batchUpdate" THEN r.validated.updates[r.idx].id ELSE r.validated.ids[r.idx]
ItemSucceeded(r, r2) ==
    IF r.op = "batchUpdate"
    THEN Len(r2.updated) = Len(r.updated) + 1 /\ r2.deletedCount = r.deletedCount
    ELSE r2.deletedCount = r.deletedCount + 1 /\ r2.updated = r.updated

\* C4: in a batch (update or delete) past validation and connection, every
\* step of the loop ends without an exception, moves to the next item, and
\* either records the id in failed (always when the id names no record) or
\* counts a success; the call ends only after its last item, with a result.
C4_FailureStaysInItem ==
    [][\A p \in Procs :
          (/\ req[p].pc = "store"
           /\ req[p].op \in {"batchUpdate", "batchDelete"}
           /\ req'[p] # req[p])
          => (/\ req'[p].error = "none"
              /\ req'[p].idx = req[p].idx + 1
              /\ req'[p].pc = IF req[p].idx < Len(BatchItems(req[p])) THEN "store" ELSE "done"
              /\ (BatchId(req[p]).key \notin DOMAIN store
                    => req'[p].failed = Append(req[p].failed, BatchId(req[p])))
              /\ \/ /\ req'[p].failed = Append(req[p].failed, BatchId(req[p]))
                    /\ req'[p].updated = req[p].updated
                    /\ req'[p].deletedCount = req[p].deletedCount
                 \/ /\ req'[p].failed = req[p].failed
                    /\ ItemSucceeded(req[p], req'[p]))]_vars

\* a returned batch whose first item failed and whose second item succeeded
C4_Witness ==
    \E p \in Procs :
        /\ req[p].op \in {"batchUpdate", "batchDelete"}
        /\ req[p].pc = "done" /\ req[p].error = "none"
        /\ Len(BatchItems(req[p])) = 2
        /\ BatchItems(req[p])[1] # BatchItems(req[p])[2]
        /\ req[p].failed = <<IF req[p].op = "batchUpdate"
                             THEN req[p].validated.updates[1].id
                             ELSE req[p].validated.ids[1]>>
        /\ (Len(req[p].updated) = 1 \/ req[p].deletedCount = 1)

\* C5: no rollback: the step of a batch status update in which an item fails
\* changes no record of the store and no snapshot already in updated, so a
\* record updated by an earlier item keeps the status that item wrote.
C5_NoRollback ==
    [][\A p \in Procs :
          (/\ req[p].pc = "store"
           /\ req[p].op = "batchUpdate"
           /\ Len(req'[p].failed) > Len(req[p].failed))
          => (store' = store /\ req'[p].updated = req[p].updated)]_vars

\* a returned batch whose first item was applied and whose second item
\* failed: the record still has the status the first item wrote
C5_Witness ==
    \E p \in Procs :
        /\ BatchUpdateReturned(p)
        /\ Len(SentUpdates(p)) = 2
        /\ Len(req[p].updated) = 1 /\ Len(req[p].failed) = 1
        /\ req[p].updated[1].id = SentIds(p)[1]
        /\ req[p].failed[1] = SentIds(p)[2]
        /\ SentIds(p)[1].key \in DOMAIN store
        /\ store[SentIds(p)[1].key].status = SentUpdates(p)[1].status.v
        /\ store[SentIds(p)[1].key].status # PENDING

\* C6: a batch delete whose ids are missing, not a list, empty, or hold an
\* element that is not a non-empty string is rejected with InvalidInput at
\* the call: no record is deleted, those named by its valid ids included.
C6_InvalidDeleteRejectedUnchanged ==
    [][\A p \in Procs :
          (/\ req[p].pc = "idle"
           /\ req'[p].op = "batchDelete"
           /\ \/ req'[p].request.ids.t # "array"
              \/ Len(req'[p].request.ids.items) = 0
              \/ \E i \in 1..Len(req'[p].request.ids.items) :
                    NotNonEmptyString(req'[p].request.ids.items[i]))
          => (/\ req'[p].pc = "done"
              /\ req'[p].error = "InvalidInputError"
              /\ req'[p].deletedCount = 0 /\ req'[p].failed = <<>>
              /\ store' = store
              /\ cached' = cached
              /\ attempts' = attempts)]_vars

\* a rejected batch delete whose first id names a stored record and whose
\* second id is the empty string
C6_Witness ==
    \E p \in Procs :
        /\ req[p].op = "batchDelete" /\ req[p].pc = "done"
        /\ req[p].error = "InvalidInputError"
        /\ req[p].request.ids.t = "array"
        /\ Len(req[p].request.ids.items) = 2
        /\ ~NotNonEmptyString(req[p].request.ids.items[1])
        /\ req[p].request.ids.items[1].key \in DOMAIN store
        /\ req[p].request.ids.items[2] = IdStr(0, 0)

\* C7: the delete of an id that names a record removes exactly that record
\* and counts it, without listing it in failed; the delete of an id that names
\* no record (as after an earlier delete) lists it in failed and counts
\* nothing; and an id once removed is in the store never again.
C7_DeletedOnceThenFailed ==
    [][/\ \A k \in 1..(nextId - 1) : k \notin DOMAIN store => k \notin DOMAIN store'
       /\ \A p \in Procs :
             (/\ req[p].pc = "store"
              /\ req[p].op = "batchDelete"
              /\ req'[p] # req[p])
             => LET id == req[p].validated.ids[req[p].idx]
                IN  /\ \/ /\ id.key \in DOMAIN store
                          /\ DOMAIN store' = DOMAIN store \ {id.key}
                          /\ \A k \in DOMAIN store' : store'[k] = store[k]
                          /\ req'[p].deletedCount = req[p].deletedCount + 1
                          /\ req'[p].failed = req[p].failed
                       \/ /\ store' = store
                          /\ req'[p].deletedCount = req[p].deletedCount
                          /\ req'[p].failed = Append(req[p].failed, id)
                    /\ id.key \notin DOMAIN store => store' = store]_vars

\* a batch delete has counted a record it removed, and has listed in failed
\* an id whose record an earlier delete had removed
C7_Witness ==
    \E p \in Procs :
        /\ req[p].op = "batchDelete" /\ req[p].pc = "done" /\ req[p].error = "none"
        /\ Len(req[p].validated.ids) = 2
        /\ req[p].deletedCount = 1
        /\ req[p].failed = <<req[p].validated.ids[2]>>
        /\ req[p].validated.ids[1].key \in 1..(nextId - 1)
        /\ req[p].validated.ids[2].key \in 1..(nextId - 1)
        /\ req[p].validated.ids[1].key # req[p].validated.ids[2].key
        /\ DOMAIN store = {}

\* C8: the record createNewRequest stores, and the snapshot it returns, have
\* status pending and requestCreatedDate = lastEditedDate, whatever status
\* or date the payload carries.
C8_CreatedPendingSameDates ==
    [][\A p \in Procs :
          (/\ req[p].op = "create" /\ req[p].pc = "store"
           /\ req'[p].pc = "done" /\ req'[p].error = "none")
          => /\ Len(req'[p].ret) = 1
             /\ LET k == req'[p].ret[1].id.key
                IN  /\ req'[p].ret[1].id = IdStr(0, k)
                    /\ k \in DOMAIN store' \ DOMAIN store
                    /\ store'[k].status = "pending"
                    /\ store'[k].requestCreatedDate = store'[k].lastEditedDate
                    /\ req'[p].ret[1].status = "pending"
                    /\ req'[p].ret[1].requestCreatedDate = store'[k].requestCreatedDate
                    /\ req'[p].ret[1].lastEditedDate = store'[k].requestCreatedDate]_vars

\* a create whose payload carried status approved and an earlier date has
\* returned a pending record dated by the clock
C8_Witness ==
    \E p \in Procs :
        /\ req[p].op = "create" /\ req[p].pc = "done" /\ req[p].error = "none"
        /\ req[p].request.status = StatusStr("approved")
        /\ req[p].request.lastEditedDate = [t |-> "date", v |-> 0]
        /\ req[p].ret[1].status = "pending"
        /\ req[p].ret[1].requestCreatedDate = MaxClock
        /\ req[p].ret[1].lastEditedDate = MaxClock
        /\ req[p].ret[1].id.key \in DOMAIN store

\* a field of a create payload whose trimmed length is within lo..hi
TrimmedWithin(v, lo, hi) ==
    v.t = "string" /\ length(trim(v)) >= lo /\ length(trim(v)) <= hi

CreateWithinBounds(request) ==
    /\ TrimmedWithin(request.requestorName, 3, 30)
    /\ TrimmedWithin(request.itemRequested, 2, 100)

\* C9: create rejects with InvalidInput exactly when a field is missing or
\* its trimmed length is out of bounds; an input within bounds is neither
\* rejected as invalid nor failed by the schema's check.
C9_ClassifiedByTrimmedLength ==
    \A p \in Procs :
        (req[p].op = "create" /\ req[p].pc = "done")
        => /\ ~CreateWithinBounds(req[p].request) => req[p].error = "InvalidInputError"
           /\ CreateWithinBounds(req[p].request)
                => req[p].error \notin {"InvalidInputError", "ValidationError"}

\* C10: the status of every stored record is one of the four enum values.
C10_StatusInEnum ==
    \A k \in DOMAIN store : store[k].status \in RequestStatus

\* a record has been given another status than pending, and an update of a
\* stored record to a status outside the enum has been rejected
C10_Witness ==
    /\ \E k \in DOMAIN store : store[k].status = "completed"
    /\ \E p \in Procs :
          /\ req[p].op \in {"update", "batchUpdate"}
          /\ req[p].pc = "done" /\ req[p].error = "InvalidInputError"
          /\ \/ /\ req[p].op = "update"
                /\ req[p].request = Pair(IdStr(0, 1), StatusStr("PENDING"))
             \/ /\ req[p].op = "batchUpdate"
                /\ req[p].request = [updates |-> Arr(<<Pair(IdStr(0, 1), StatusStr("PENDING"))>>)]
          /\ 1 \in DOMAIN store

\* the record a step of a status update addresses
UpdateTarget(p) ==
    IF req[p].op = "update"
    THEN req[p].validated.id.key
    ELSE req[p].validated.updates[req[p].idx].id.key

\* this step is the store operation of a single update or of one batch item
UpdateStepOf(p) ==
    /\ req[p].op \in {"update", "batchUpdate"}
    /\ req[p].pc = "store"
    /\ req'[p] # req[p]

\* C11: a status update (single, or one item of a batch) changes only the
\* status and the last edited date of the record it targets, every other
\* record is unchanged; and no step of any request changes the name, the item
\* or the creation date of a record that stays in the store.
C11_UpdateChangesStatusAndDateOnly ==
    [][/\ \A k \in DOMAIN store \cap DOMAIN store' :
             /\ store'[k].requestorName = store[k].requestorName
             /\ store'[k].itemRequested = store[k].itemRequested
             /\ store'[k].requestCreatedDate = store[k].requestCreatedDate
       /\ \A p \in Procs :
             UpdateStepOf(p)
             => /\ DOMAIN store' = DOMAIN store
                /\ \A k \in DOMAIN store : k # UpdateTarget(p) => store'[k] = store[k]]_vars

\* the record created earlier has been updated by a batch item beside a
\* second record: it keeps its creation date, the second record is as it was
\* created
C11_Witness ==
    /\ DOMAIN store = {1, 2}
    /\ store[1].requestCreatedDate = -1
    /\ store[1].lastEditedDate = clock
    /\ store[1].status = "approved"
    /\ store[2].status = PENDING
    /\ \E p \in Procs :
          /\ BatchUpdateReturned(p)
          /\ Len(req[p].updated) = 1
          /\ req[p].updated[1].id = IdStr(0, 1)
          /\ req[p].updated[1].requestCreatedDate = -1

\* C12: no step, under any interleaving of requests that read the clock when
\* they start and write later, replaces the last edited date of a record by
\* an earlier one.
C12_LastEditedNeverDecreases ==
    [][\A k \in DOMAIN store \cap DOMAIN store' :
          store'[k].lastEditedDate >= store[k].lastEditedDate]_vars

\* this step of a batch status update appends a snapshot to updated
BatchItemApplied(p) ==
    /\ req[p].op = "batchUpdate" /\ req[p].pc = "store"
    /\ Len(req'[p].updated) = Len(req[p].updated) + 1

\* C13: each applied pair of a batch sets, in one step on the store, the
\* record's status to the pair's status and its last edited date to the time
\* at which the pair is applied, and the snapshot appended to updated shows
\* that status and that time.
C13_AppliedPairStampedWhenApplied ==
    [][\A p \in Procs :
          BatchItemApplied(p)
          => LET update == req[p].validated.updates[req[p].idx]
                 k == update.id.key
                 snapshot == req'[p].updated[Len(req'[p].updated)]
             IN  /\ store'[k].status = update.status
                 /\ store'[k].lastEditedDate = clock
                 /\ snapshot = ItemRequest(k, store'[k])]_vars

\* this step is the store operation of the second application of a single
\* update, on the record as the first application left it
SecondApplied(p) ==
    /\ req[p].op = "update" /\ req[p].pc = "store" /\ req[p].first # <<>>
    /\ req'[p].pc = "done" /\ req'[p].error = "none"
    /\ req[p].validated.id.key \in DOMAIN store
    /\ ItemRequest(req[p].validated.id.key, store[req[p].validated.id.key]) = req[p].first[1]

\* C14 as stated: the second application of the same single update, with no
\* other mutation of the record in between, leaves the status as the first
\* left it and moves the last edited date forward.
C14_SameStatusLaterDate ==
    [][\A p \in Procs :
          SecondApplied(p)
          => LET k == req[p].validated.id.key
             IN  /\ store'[k].status = req[p].first[1].status
                 /\ store'[k].lastEditedDate > req[p].first[1].lastEditedDate]_vars

\* C14 amended: the second application leaves the status as the first left
\* it; the last edited date does not go back, and it moves forward whenever
\* the clock has advanced between the two applications.
C14_SameStatusDateNotEarlier ==
    [][\A p \in Procs :
          SecondApplied(p)
          => LET k == req[p].validated.id.key
             IN  /\ store'[k].status = req[p].first[1].status
                 /\ store'[k].lastEditedDate >= req[p].first[1].lastEditedDate
                 /\ req[p].currentDate > req[p].first[1].lastEditedDate
                       => store'[k].lastEditedDate > req[p].first[1].lastEditedDate]_vars

\* a second application has returned the status of the first and a later date
C14_Witness ==
    \E p \in Procs :
        /\ req[p].op = "update" /\ req[p].pc = "done" /\ req[p].error = "none"
        /\ req[p].first # <<>>
        /\ req[p].ret[1].id = req[p].first[1].id
        /\ req[p].ret[1].status = req[p].first[1].status
        /\ req[p].ret[1].lastEditedDate > req[p].first[1].lastEditedDate
        /\ store[req[p].ret[1].id.key] = [store[req[p].ret[1].id.key] EXCEPT
                                             !.status = req[p].ret[1].status,
                                             !.lastEditedDate = req[p].ret[1].lastEditedDate]

\* this step is the store operation of a single update, or of one item of a
\* batch update, whose identifier names no record
MissingTargetStep(p, op) ==
    /\ req[p].op = op /\ UpdateStepOf(p)
    /\ UpdateTarget(p) \notin DOMAIN store

\* what holds of both paths in C15: the single update raises and the batch
\* item does not, and neither changes the store
RaisesOrListsFailed(p) ==
    /\ MissingTargetStep(p, "update")
          => /\ req'[p].pc = "done" /\ req'[p].error # "none"
             /\ store' = store
    /\ MissingTargetStep(p, "batchUpdate")
          => /\ req'[p].error = "none"
             /\ req'[p].failed = Append(req[p].failed, req[p].validated.updates[req[p].idx].id)
             /\ req'[p].updated = req[p].updated
             /\ store' = store

\* C15 as stated: a single update whose identifier names no record raises an
\* error that is another condition than the InvalidInput of a malformed
\* payload and leaves the store unchanged; a batch item with that identifier
\* raises nothing and is listed in failed.
C15_NotFoundDistinctFromInvalidInput ==
    [][\A p \in Procs :
          /\ RaisesOrListsFailed(p)
          /\ MissingTargetStep(p, "update") => req'[p].error # "InvalidInputError"]_vars

\* C15 amended: the error the single update raises is the InvalidInputError
\* a malformed payload raises, with another message ("edit item ID" against
\* "edit item request"), or the error of the store operation itself.
C15_NotFoundIsInvalidInput ==
    [][\A p \in Procs :
          /\ RaisesOrListsFailed(p)
          /\ MissingTargetStep(p, "update")
                => /\ req'[p].error \in {"InvalidInputError", "StoreError", "CastError"}
                   /\ req'[p].error = "InvalidInputError" => req'[p].message = "edit item ID"
                   /\ ~Castable(UpdateTarget(p)) => req'[p].error = "CastError"
          /\ (req'[p].op = "update" /\ req'[p].pc = "done" /\ req'[p].validated = Null)
                => /\ req'[p].error = "InvalidInputError"
                   /\ req'[p].message = "edit item request"]_vars

\* a single update of a record that was deleted has raised InvalidInputError
\* with the message of the missing record
C15_Witness ==
    \E p \in Procs :
        /\ req[p].op = "update" /\ req[p].pc = "done"
        /\ req[p].error = "InvalidInputError" /\ req[p].message = "edit item ID"
        /\ req[p].validated.id.key \in 1..(nextId - 1)
        /\ req[p].validated.id.key \notin DOMAIN store

Max(a, b) == IF a > b THEN a ELSE b

\* this step is the find of a getItemRequests for a page k >= 1, and the
\* store has carried it out
FindReturns(p) ==
    /\ req[p].op = "get" /\ req[p].pc = "find" /\ req[p].validated.page >= 1
    /\ req'[p].pc = "done" /\ req'[p].error = "none"

\* the records of the store that match the status filter of the call
Matching(p) == {k \in DOMAIN store : req[p].validated.status # Undefined
                                        => store[k].status = req[p].validated.status.v}

\* C16: with page size P and N records matching the filter when the page is
\* read, page k >= 1 has exactly min(P, max(0, N - (k-1)*P)) records; a page
\* past the last one is an empty list, and the call raises no InvalidInput
\* for it.
C16_PageCount ==
    [][\A p \in Procs :
          /\ FindReturns(p)
                => Len(req'[p].ret)
                     = Min(PAGINATION_PAGE_SIZE,
                           Max(0, Cardinality(Matching(p))
                                    - (req[p].validated.page - 1) * PAGINATION_PAGE_SIZE))
          /\ (req[p].op = "get" /\ req[p].pc = "find" /\ req[p].validated.page >= 1)
                => req'[p].error \in {"none", "StoreError"}]_vars

\* the page past the last one of three records has returned the empty list
C16_Witness ==
    \E p \in Procs :
        /\ req[p].op = "get" /\ req[p].pc = "done" /\ req[p].error = "none"
        /\ req[p].validated.status = Undefined
        /\ Cardinality(DOMAIN store) = PAGINATION_PAGE_SIZE + 1
        /\ req[p].totalCount = PAGINATION_PAGE_SIZE + 1
        /\ req[p].validated.page = 3
        /\ req[p].ret = <<>>

\* the page is sorted newest first and holds only records of the status asked
SortedAndFiltered(page, status) ==
    /\ \A i, j \in DOMAIN page :
          i < j => page[i].requestCreatedDate >= page[j].requestCreatedDate
    /\ \A i \in DOMAIN page : status # Undefined => page[i].status = status.v

\* next can follow page in one sorted listing: no record in both, no record
\* of next newer than one of page
DisjointConsecutive(page, next) ==
    \A i \in DOMAIN page, j \in DOMAIN next :
        /\ page[i].id # next[j].id
        /\ page[i].requestCreatedDate >= next[j].requestCreatedDate

\* the pages a getItemRequests for the page after that of call p can return
\* from the store as it is
NextPages(p) ==
    {getFind([req[p] EXCEPT !.validated.page = @ + 1], store, "ok", order).ret :
        order \in sortedOrders(store, req[p].validated.status)}

\* the count read by countDocuments is the number of matching records
CountsMatching(p) ==
    (req[p].op = "get" /\ req[p].pc = "store" /\ req'[p].pc = "find")
    => req'[p].totalCount = Cardinality(Matching(p))

\* C17: the page getItemRequests returns is sorted by creation time
\* descending, every record of it matches the status filter when one is
\* given, pages k and k+1 of the same store state are disjoint and
\* consecutive in that order, and totalCount is the number of stored records
\* matching the filter.
C17_SortedFilteredPagesDisjoint ==
    [][\A p \in Procs :
          /\ CountsMatching(p)
          /\ FindReturns(p)
                => /\ SortedAndFiltered(req'[p].ret, req[p].validated.status)
                   /\ \A next \in NextPages(p) : DisjointConsecutive(req'[p].ret, next)]_vars

\* the connection attempts in flight
InFlight(att) == {k \in DOMAIN att : att[k] = "pending"}

\* C18: connectDB keeps at most one connection attempt in flight, whatever
\* the number of callers and the moment they arrive; when an attempt fails,
\* every caller waiting on it receives the error, the failed attempt is
\* discarded once they have, and the next call starts an attempt of its own
\* or joins the one in flight, never the failed one.
C18_OneAttemptInFlight ==
    [][/\ Cardinality(InFlight(attempts')) <= 1
       /\ \A p \in Procs :
             /\ (/\ req[p].pc = "awaitConn"
                 /\ attempts[req[p].awaiting] = "rejected"
                 /\ req'[p] # req[p])
                => req'[p].pc = "done" /\ req'[p].error = "ConnectionError"
             /\ (req[p].pc = "idle" /\ req'[p].pc = "awaitConn")
                => attempts'[req'[p].awaiting] = "pending"
       /\ NoReaction' => (cached'.promise = 0 \/ attempts'[cached'.promise] # "rejected")]_vars

\* three callers waited on the attempt that failed: two have received the
\* error and cleared the cache, the third is about to receive it
C18_Witness ==
    /\ req["r1"].pc = "done" /\ req["r1"].error = "ConnectionError"
    /\ req["r2"].pc = "done" /\ req["r2"].error = "ConnectionError"
    /\ req["r3"].pc = "awaitConn"
    /\ attempts[req["r3"].awaiting] = "rejected"
    /\ cached.promise = 0
    /\ ~cached.conn

\* a call a route handler made has ended
Handled(p) == req[p].pc = "done" /\ viaHandler(req[p])

\* C19: a batch PATCH or DELETE whose body passes validation is answered 200
\* with the partitioned result, also when items failed (only a failed
\* connection ends it otherwise); a body failing validation is answered
\* INVALID_INPUT; every other error of a handler's call is answered
\* UNKNOWN_ERROR, never 200.
C19_OutcomeClasses ==
    \A p \in Procs :
        Handled(p)
        => /\ req[p].op \in {"batchUpdate", "batchDelete"}
                => /\ req[p].validated = Null
                         => response(req[p]).type = "INVALID_INPUT"
                   /\ req[p].validated # Null
                         => /\ req[p].error \in {"none", "ConnectionError"}
                            /\ req[p].error = "none"
                                  => /\ response(req[p]).type = "200"
                                     /\ response(req[p]).body.failed = req[p].failed
           /\ req[p].error \notin {"none", "InvalidInputError"}
                => response(req[p]).type = "UNKNOWN_ERROR"
           /\ response(req[p]).type \in {"200", "201"} => req[p].error = "none"

\* a DELETE whose body passed validation has been answered 200 although
\* every item failed
C19_Witness ==
    \E p \in Procs :
        /\ Handled(p) /\ req[p].op = "batchDelete" /\ req[p].validated # Null
        /\ Len(req[p].validated.ids) = MaxBatch
        /\ req[p].deletedCount = 0
        /\ Len(req[p].failed) = MaxBatch
        /\ response(req[p]).type = "200"
        /\ response(req[p]).body = [deletedCount |-> 0, failed |-> req[p].failed]

\* the call of p has returned a result
Returned(p, op) == req[p].op = op /\ req[p].pc = "done" /\ req[p].error = "none"

\* C20: on an otherwise quiet store, create {"Jane Doe", "Flashlights"}
\* returns a record with status pending; the batch update [{id, approved}] of
\* it then returns updated = [that record with status approved] and
\* failed = []; the batch delete [id, "nonexistent"] then returns
\* deletedCount = 1 and failed = ["nonexistent"], and the record is gone.
C20_EndToEnd ==
    \A p \in Procs :
        /\ (req[p].pc = "done" /\ req[p].op # "none")
              => req[p].error \in {"none", "ConnectionError"}
        /\ Returned(p, "create")
              => /\ Len(req[p].ret) = 1
                 /\ req[p].ret[1].status = "pending"
                 /\ req[p].ret[1].requestorName = Str(0, 8, 0)
                 /\ req[p].ret[1].itemRequested = Str(0, 11, 0)
                 /\ DOMAIN store = {req[p].ret[1].id.key}
                 /\ req[p].ret[1] = ItemRequest(req[p].ret[1].id.key, store[req[p].ret[1].id.key])
        /\ Returned(p, "batchUpdate")
              => LET k == req[p].validated.updates[1].id.key
                 IN  /\ DOMAIN store = {k}
                     /\ store[k].status = "approved"
                     /\ req[p].updated = <<ItemRequest(k, store[k])>>
                     /\ req[p].failed = <<>>
        /\ Returned(p, "batchDelete")
              => /\ req[p].deletedCount = 1
                 /\ req[p].failed = <<IdStr(0, -1)>>
                 /\ DOMAIN store = {}

\* the three calls have been made and the batch delete has returned
C20_Witness ==
    \E p \in Procs :
        /\ Returned(p, "batchDelete")
        /\ req[p].validated.ids = <<IdStr(0, nextId - 1), IdStr(0, -1)>>
        /\ req[p].deletedCount = 1
        /\ req[p].failed = <<IdStr(0, -1)>>
        /\ nextId > 1
        /\ DOMAIN store = {}

\* the items of seq at the positions in S, in the order of seq
Restrict(seq, S) ==
    LET F[i \in 0..Len(seq)] ==
            IF i = 0 THEN <<>>
            ELSE IF i \in S THEN Append(F[i - 1], seq[i]) ELSE F[i - 1]
    IN  F[Len(seq)]

\* the ids of the validated items of a batch, in input order
BatchIds(r) ==
    IF r.op = "batchUpdate"
    THEN [i \in 1..Len(r.validated.updates) |-> r.validated.updates[i].id]
    ELSE r.validated.ids

\* a batch past validation and connection, in its loop or returned
InBatchLoop(p) ==
    /\ req[p].op \in {"batchUpdate", "batchDelete"}
    /\ req[p].pc \in {"store", "done"}
    /\ req[p].error = "none"

\* C21: the items of a batch are processed one after the other in input
\* order: when item idx is about to be processed exactly the items before it
\* have been classified, updated holds the successful ones in their input
\* order and failed the ids of the failed ones in their input order.
C21_ProcessedInInputOrder ==
    \A p \in Procs :
        InBatchLoop(p) =>
            LET r == req[p]
                done == 1..(r.idx - 1)
                ids == BatchIds(r)
            IN  /\ r.idx - 1 <= Len(ids)
                /\ (r.pc = "done") = (r.idx - 1 = Len(ids))
                /\ \E S \in SUBSET done :
                      /\ r.failed = Restrict(ids, done \ S)
                      /\ IF r.op = "batchUpdate"
                         THEN [i \in 1..Len(r.updated) |-> r.updated[i].id] = Restrict(ids, S)
                         ELSE r.deletedCount = Cardinality(S)

\* a returned batch update of two different ids whose records are both missing
C21_Witness ==
    \E p \in Procs :
        /\ BatchUpdateReturned(p)
        /\ Len(req[p].failed) = 2
        /\ req[p].failed[1] # req[p].failed[2]
        /\ req[p].failed = BatchIds(req[p])

\* the counts of a batch delete in its loop: the items before idx are split
\* into deleted and failed ones, no id is among the deleted ones twice and
\* no deleted id names a record
DeleteCounts(p) ==
    LET r == req[p]
        done == 1..(r.idx - 1)
        ids == r.validated.ids
    IN  /\ r.deletedCount + Len(r.failed) = r.idx - 1
        /\ (r.pc = "done") => (r.deletedCount + Len(r.failed) = Len(r.request.ids.items))
        /\ \E S \in SUBSET done :
              /\ r.deletedCount = Cardinality(S)
              /\ r.failed = Restrict(ids, done \ S)
              /\ \A i, j \in S : i # j => ids[i].key # ids[j].key
              /\ \A i \in S : ids[i].key \notin DOMAIN store

\* a step of the loop of a batch delete counts exactly the records it
\* removes from the store: one, the record of the current id, or none
DeleteStepCounts(p) ==
    (/\ req[p].op = "batchDelete" /\ req[p].pc = "store"
     /\ req'[p] # req[p])
    => LET removed == DOMAIN store \ DOMAIN store'
       IN  /\ req'[p].deletedCount - req[p].deletedCount = Cardinality(removed)
           /\ removed \subseteq {req[p].validated.ids[req[p].idx].key}
           /\ DOMAIN store' \subseteq DOMAIN store
           /\ \A k \in DOMAIN store' : store'[k] = store[k]

\* C25: for a batch delete past validation and connection,
\* deletedCount + len(failed) = len(ids), deletedCount is the number of
\* records the call removed from the store, and an id repeated in the list is
\* counted as deleted at most once, its occurrences after that one going to
\* failed.
C25_DeletedCountIsRemovals ==
    /\ [](\A p \in Procs : (InBatchLoop(p) /\ req[p].op = "batchDelete") => DeleteCounts(p))
    /\ [][\A p \in Procs : DeleteStepCounts(p)]_vars

\* a returned batch delete of the same id twice: one deletion, one failure
C25_Witness ==
    \E p \in Procs :
        /\ Returned(p, "batchDelete")
        /\ Len(req[p].validated.ids) = 2
        /\ req[p].validated.ids[1] = req[p].validated.ids[2]
        /\ req[p].deletedCount = 1
        /\ req[p].failed = <<req[p].validated.ids[2]>>
        /\ req[p].validated.ids[1].key \notin DOMAIN store

\* C26: the result of getItemRequests is that of one store snapshot also
\* while other requests create, delete and update records: the page returned
\* has min(P, max(0, totalCount - (k-1)*P)) records for the totalCount
\* returned with it.
C26_PageAgreesWithTotalCount ==
    \A p \in Procs :
        (req[p].op = "get" /\ req[p].pc = "done" /\ req[p].error = "none")
        => Len(req[p].ret)
             = Min(PAGINATION_PAGE_SIZE,
                   Max(0, req[p].totalCount
                            - (req[p].validated.page - 1) * PAGINATION_PAGE_SIZE))

\* C30: once connectDB has set cached.conn, the cache stays as it is (the
\* connection is neither cleared nor replaced), no connection attempt is
\* started or in flight, and every call goes on to its store operation
\* without waiting for a connection.
C30_ConnectionKept ==
    [][cached.conn
         => /\ cached' = cached
            /\ InFlight(attempts') = {}
            /\ DOMAIN attempts' \subseteq DOMAIN attempts
            /\ \A p \in Procs :
                  (req'[p] # req[p] /\ req'[p].pc # "idle")
                  => /\ req'[p].pc # "awaitConn"
                     /\ req'[p].error # "ConnectionError"]_vars

\* the second call of a caller whose first call was served: it is at its
\* store operation on the connection made for an earlier call
C30_Witness ==
    \E p \in Procs :
        /\ cached.conn
        /\ req[p].first # <<>>
        /\ req[p].pc = "store"
        /\ InFlight(attempts) = {}
        /\ DOMAIN attempts = {cached.promise}

\* Math.ceil(totalRecords / pageSize)
LastPage(pageSize, totalRecords) == (totalRecords + pageSize - 1) \div pageSize

\* C24: Pagination renders its arrows exactly on a valid page
\* (1 <= page <= ceil(total/pageSize)), the left one disabled on the first
\* page and the right one on the last, so that from a valid page every click
\* calls onPageChange with a valid page; on a page that is not valid it
\* renders nothing.
C24_ArrowsStayInRange ==
    /\ [](LET pageNumber == ui.currentPage
              last == LastPage(PAGINATION_PAGE_SIZE, ui.totalCount)
              arrows == Pagination(pageNumber, PAGINATION_PAGE_SIZE, ui.totalCount)
          IN  /\ isValidPage(pageNumber, PAGINATION_PAGE_SIZE, ui.totalCount)
                    <=> (1 <= pageNumber /\ pageNumber <= last)
              /\ IF 1 <= pageNumber /\ pageNumber <= last
                 THEN /\ (pageNumber - 1 \in arrows) <=> (pageNumber > 1)
                      /\ (pageNumber + 1 \in arrows) <=> (pageNumber < last)
                      /\ arrows \subseteq {pageNumber - 1, pageNumber + 1}
                 ELSE arrows = {})
    /\ [][ui'.currentPage # ui.currentPage
            => /\ 1 <= ui.currentPage
               /\ ui.currentPage <= LastPage(PAGINATION_PAGE_SIZE, ui.totalCount)
               /\ 1 <= ui'.currentPage
               /\ ui'.currentPage <= LastPage(PAGINATION_PAGE_SIZE, ui.totalCount)]_vars

\* clicks on the right arrow have led from page 1 to the last page of the
\* largest total, where only the left arrow answers
C24_Witness ==
    /\ ui.totalCount = MaxRecords
    /\ ui.currentPage = LastPage(PAGINATION_PAGE_SIZE, MaxRecords)
    /\ ui.currentPage > 1
    /\ Pagination(ui.currentPage, PAGINATION_PAGE_SIZE, ui.totalCount) = {ui.currentPage - 1}

\* no fetchRequests is waiting for its response
NoFetchInFlight == \A c \in net : c.kind # "GET"

\* the status the tab asks the API for
TabStatus(tab) == IF tab = "all" THEN Undefined ELSE StatusStr(tab)

\* the answers GET ?page=&status= can give for the store as it is
PagesOf(page, tab) ==
    {[requests |-> transformedData(transformedRequests(store,
                       skipLimit(order, (page - 1) * PAGINATION_PAGE_SIZE))),
      totalCount |-> countDocuments(store, TabStatus(tab))] :
        order \in sortedOrders(store, TabStatus(tab))}

\* the table shows the given page of the given tab
Shows(page, tab) ==
    \E answer \in PagesOf(page, tab) :
        ui.requests = answer.requests /\ ui.totalCount = answer.totalCount

\* a handler that awaited the refresh after its batch operation has ended
BatchCompleted ==
    \E c \in net : /\ c.kind = "GET"
                    /\ c.of \in {"handleBatchEdit", "handleBatchDelete"}
                    /\ c \notin net'

\* C22: the selection is empty once a batch edit or batch delete has
\* completed, and after every change of the page or of the tab.
C22_SelectionCleared ==
    [][(\/ BatchCompleted
        \/ ui'.currentPage # ui.currentPage
        \/ ui'.selectedTab # ui.selectedTab)
       => ui'.selectedIds = <<>>]_vars

\* C23: a change of the tab and a successful add set currentPage to 1, and
\* the list shown once the fetches have completed is page 1 of the selected
\* tab.
C23_BackToPageOne ==
    /\ [][(ui'.selectedTab # ui.selectedTab \/ nextId' # nextId) => ui'.currentPage = 1]_vars
    /\ []((NoFetchInFlight /\ ui.error = Null /\ ~ui.loading /\ ui.currentPage = 1)
            => Shows(1, ui.selectedTab))

\* C27: once every fetch in flight has completed, the requests and the
\* totalCount displayed are those of the current page of the current tab,
\* in whatever order the responses arrived.
C27_ShowsCurrentPageAndTab ==
    (NoFetchInFlight /\ ui.error = Null /\ ~ui.loading)
    => Shows(ui.currentPage, ui.selectedTab)

\* C28: with no fetch in flight, selectedIds has no duplicate and holds
\* only ids of rows the table displays.
C28_SelectionIsDisplayed ==
    NoFetchInFlight
    => /\ Distinct(ui.selectedIds)
       /\ \A i \in 1..Len(ui.selectedIds) :
             \E j \in 1..Len(ui.requests) : ui.requests[j].id = ui.selectedIds[i]

\* C29: with no fetch in flight and totalCount > 0, currentPage is a page
\* of the list, 1 <= currentPage <= ceil(totalCount / PAGINATION_PAGE_SIZE).
C29_CurrentPageIsValid ==
    (NoFetchInFlight /\ ~ui.loading /\ ui.totalCount > 0)
    => /\ 1 <= ui.currentPage
       /\ ui.currentPage <= LastPage(PAGINATION_PAGE_SIZE, ui.totalCount)

====
